---- MODULE Spec2Model ----
(***************************************************************************)
(* State-machine model of the trivia REST API in                           *)
(* src/backend/flaskr/__init__.py: the question table, the request being   *)
(* handled, the locals of play_quiz while its draw loop runs, and the      *)
(* response to that request.                                               *)
(*                                                                         *)
(* Modelling decisions:                                                    *)
(*  - models.py (Question, Category, insert, delete, format) is not part   *)
(*    of the sources at hand; the table operations follow the data model   *)
(*    of the specification (nullable columns, serial ids).                 *)
(*  - A query without order_by returns the rows in table order, which is   *)
(*    insertion order and therefore id order.                              *)
(*  - A request is handled atomically except for the draw loop of          *)
(*    play_quiz, which takes one step per iteration so that every          *)
(*    sequence of random.randrange outcomes is explored.                   *)
(*  - Text is a sequence of one-character strings; an optional value is    *)
(*    None or Some(v).                                                     *)
(*  - The database accepts every insert and delete; a request body is a    *)
(*    JSON object, and a quiz_category that is present has an id.          *)
(***************************************************************************)
EXTENDS Integers, Sequences, FiniteSets, TLC

VARIABLES
    questions,  \* the Question table: a sequence of rows
    next_id,    \* the next value of the table's serial id
    pc,         \* "idle", or "loop" while play_quiz is in its for loop
    req,        \* the request being handled (or handled last)
    loc,        \* the locals of play_quiz
    resp,       \* the response to req; NoResponse while play_quiz is in its loop
    served      \* number of requests accepted so far

vars == <<questions, next_id, pc, req, loc, resp, served>>

----------------------------------------------------------------------------
(* Bounds of the model *)

MaxRequests == 2
SeedSize == 11
MaxPrevLen == 2
MaxItems == 21

(* Program constant *)
QUESTIONS_PER_PAGE == 10

----------------------------------------------------------------------------
(* Values *)

None == [some |-> FALSE]
Some(v) == [some |-> TRUE, val |-> v]

Min(a, b) == IF a < b THEN a ELSE b
Max(a, b) == IF a > b THEN a ELSE b

Range(s) == {s[i] : i \in 1..Len(s)}

(* Python's seq[start:end] for integers start and end, negative ones
   counting from the end of the sequence. *)
PyIndex(i, n) == IF i < 0 THEN Max(i + n, 0) ELSE Min(i, n)
PySlice(s, start, end) ==
    LET lo == PyIndex(start, Len(s))
        hi == PyIndex(end, Len(s))
    IN  IF lo < hi THEN SubSeq(s, lo + 1, hi) ELSE <<>>

(* int(text) as werkzeug's args.get(..., type=int) applies it, for text over
   the signs, the decimal digits and letters: an optional sign followed by
   decimal digits has a value; anything else raises ValueError. *)
Digits == <<"0", "1", "2", "3", "4", "5", "6", "7", "8", "9">>
IsDigit(c) == \E d \in 1..10 : Digits[d] = c
DigitVal(c) == (CHOOSE d \in 1..10 : Digits[d] = c) - 1
RECURSIVE DecVal(_)
DecVal(s) ==
    IF s = <<>> THEN 0
    ELSE DecVal(SubSeq(s, 1, Len(s) - 1)) * 10 + DigitVal(s[Len(s)])
ParseInt(s) ==
    LET neg == s # <<>> /\ Head(s) = "-"
        pos == s # <<>> /\ Head(s) = "+"
        ds == IF neg \/ pos THEN Tail(s) ELSE s
    IN  IF ds # <<>> /\ \A i \in 1..Len(ds) : IsDigit(ds[i])
        THEN Some(IF neg THEN 0 - DecVal(ds) ELSE DecVal(ds))
        ELSE None

(* request.args.get('page', 1, type=int): the default for a missing argument
   and for one int() rejects. *)
ArgsGetPage(arg) ==
    IF arg.some /\ ParseInt(arg.val).some THEN ParseInt(arg.val).val ELSE 1

(* Case folding and substring match of Question.question.ilike('%term%'),
   for text over the letters t, i, a, z in either case (no % or _ in the
   term); a NULL column matches nothing. *)
Lower(c) ==
    CASE c = "T" -> "t"
      [] c = "I" -> "i"
      [] c = "A" -> "a"
      [] c = "Z" -> "z"
      [] OTHER -> c
LowerStr(s) == [i \in 1..Len(s) |-> Lower(s[i])]
Contains(text, term) ==
    \E i \in 0..(Len(text) - Len(term)) : SubSeq(text, i + 1, i + Len(term)) = term
ILike(column, term) ==
    column.some /\ Contains(LowerStr(column.val), LowerStr(term))

----------------------------------------------------------------------------
(* The persistence layer *)

CategoryTable == <<"Science", "Art", "Geography">>

SeedRow(i) ==
    [id |-> i,
     question |-> Some(IF i % 2 = 1 THEN <<"T", "i">> ELSE <<"a", "t">>),
     answer |-> Some(<<"a">>),
     category |-> Some(IF i <= 2 THEN 1 ELSE 2),
     difficulty |-> Some(1)]

SeedTable(n) == [i \in 1..n |-> SeedRow(i)]

Format(q) ==
    [id |-> q.id, question |-> q.question, answer |-> q.answer,
     category |-> q.category, difficulty |-> q.difficulty]

FormatAll(selection) == [i \in 1..Len(selection) |-> Format(selection[i])]

Insert(table, row) == Append(table, row)

Delete(table, id) == SelectSeq(table, LAMBDA r : r.id # id)

QueryAll(table) == table

RECURSIVE OrderById(_)
OrderById(table) ==
    IF table = <<>> THEN <<>>
    ELSE LET k == CHOOSE i \in 1..Len(table) :
                     \A j \in 1..Len(table) : table[i].id <= table[j].id
         IN  <<table[k]>> \o
             OrderById(SubSeq(table, 1, k - 1) \o SubSeq(table, k + 1, Len(table)))

FilterById(table, id) == SelectSeq(table, LAMBDA r : r.id = id)

FilterByCategory(table, c) == SelectSeq(table, LAMBDA r : r.category = Some(c))

FilterILike(table, term) == SelectSeq(table, LAMBDA r : ILike(r.question, term))

Ids(selection) == {selection[i].id : i \in 1..Len(selection)}

----------------------------------------------------------------------------
(* Helpers of the application *)

(* paginate_questions with the window starting one page late. *)
paginate_questions_page_late(request, selection) ==
    LET page == ArgsGetPage(request.page)
        start == page * QUESTIONS_PER_PAGE
        end == start + QUESTIONS_PER_PAGE
    IN  PySlice(FormatAll(selection), start, end)

paginate_questions(request, selection) ==
    LET page == ArgsGetPage(request.page)
        start == (page - 1) * QUESTIONS_PER_PAGE
        end == start + QUESTIONS_PER_PAGE
    IN  PySlice(FormatAll(selection), start, end)

categories_dict == [c \in 1..Len(CategoryTable) |-> CategoryTable[c]]

Ok(body) == [status |-> 200, body |-> body]

not_found ==
    [status |-> 404,
     body |-> [success |-> FALSE, error |-> 404, message |-> "resource not found"]]

unprocessable ==
    [status |-> 422,
     body |-> [success |-> FALSE, error |-> 422, message |-> "unprocessable"]]

bad_request ==
    [status |-> 400,
     body |-> [success |-> FALSE, error |-> 400, message |-> "bad request"]]

(* An exception no handler is registered for: Flask's own 500 page. *)
InternalServerError == [status |-> 500, body |-> [html |-> "Internal Server Error"]]

NoLocals == [fn |-> "none"]
NoRequest == [op |-> "none"]
NoResponse == [status |-> 0, body |-> [none |-> TRUE]]

----------------------------------------------------------------------------
(* Inputs *)

PageArgs == {None, Some(<<"2">>)}
DeleteIds == {1, SeedSize, SeedSize + 1}
QuestionTexts == {None, Some(<<"T">>)}
AnswerTexts == {None, Some(<<"a">>)}
Difficulties == {None, Some(1)}
QuestionCategories == {None, Some(1)}
SearchTerms == {None, Some(<<>>), Some(<<"t">>), Some(<<"I">>), Some(<<"z">>)}
CategoryIds == 1..(Len(CategoryTable) + 1)
QuizCategoryIds == {0, 1, Len(CategoryTable)}
PrevIds == {1, 2}

RECURSIVE SeqsUpTo(_, _)
SeqsUpTo(S, n) ==
    IF n = 0 THEN {<<>>}
    ELSE LET shorter == SeqsUpTo(S, n - 1)
         IN  shorter \cup {Append(s, x) : s \in shorter, x \in S}

PreviousQuestions == {None} \cup {Some(s) : s \in SeqsUpTo(PrevIds, MaxPrevLen)}
QuizCategories == {None} \cup {Some([id |-> c]) : c \in QuizCategoryIds}

Accepting == pc = "idle" /\ served < MaxRequests

----------------------------------------------------------------------------
(* Route handlers *)

get_categories ==
    /\ Accepting
    /\ req' = [op |-> "get_categories"]
    /\ resp' = IF Len(CategoryTable) = 0
               THEN not_found
               ELSE Ok([success |-> TRUE, categories |-> categories_dict])
    /\ served' = served + 1
    /\ UNCHANGED <<questions, next_id, pc>>
    /\ loc' = NoLocals

get_questions ==
    \E page \in PageArgs :
        /\ Accepting
        /\ req' = [op |-> "get_questions", page |-> page]
        /\ LET selection == QueryAll(questions)
               total_questions == Len(selection)
               current_questions == paginate_questions(req', selection)
           IN  resp' = IF Len(current_questions) = 0
                       THEN not_found
                       ELSE Ok([success |-> TRUE,
                                questions |-> current_questions,
                                total_questions |-> total_questions,
                                categories |-> categories_dict])
        /\ served' = served + 1
        /\ UNCHANGED <<questions, next_id, pc>>
        /\ loc' = NoLocals

(* delete_question answering with the list it fetched before the delete. *)
delete_question_stale_list ==
    \E question_id \in DeleteIds, page \in PageArgs :
        /\ Accepting
        /\ req' = [op |-> "delete_question", question_id |-> question_id,
                   page |-> page]
        /\ LET question == FilterById(questions, question_id)
               raised == question = <<>>
               remaining == Delete(questions, question_id)
           IN  IF raised
               THEN /\ resp' = unprocessable
                    /\ UNCHANGED questions
               ELSE /\ questions' = remaining
                    /\ resp' = Ok([success |-> TRUE,
                                   deleted |-> question_id,
                                   questions |->
                                       paginate_questions(req', OrderById(questions)),
                                   total_questions |-> Len(QueryAll(remaining))])
        /\ served' = served + 1
        /\ UNCHANGED <<next_id, pc>>
        /\ loc' = NoLocals

(* abort(404) raises inside the try block; the bare except catches every
   exception, the one of abort(404) included, and aborts with 422. *)
delete_question ==
    \E question_id \in DeleteIds, page \in PageArgs :
        /\ Accepting
        /\ req' = [op |-> "delete_question", question_id |-> question_id,
                   page |-> page]
        /\ LET question == FilterById(questions, question_id)
               raised == question = <<>>
               remaining == Delete(questions, question_id)
           IN  IF raised
               THEN /\ resp' = unprocessable
                    /\ UNCHANGED questions
               ELSE /\ questions' = remaining
                    /\ resp' = Ok([success |-> TRUE,
                                   deleted |-> question_id,
                                   questions |->
                                       paginate_questions(req', OrderById(remaining)),
                                   total_questions |-> Len(QueryAll(remaining))])
        /\ served' = served + 1
        /\ UNCHANGED <<next_id, pc>>
        /\ loc' = NoLocals

(* create_question counting the rows before the insert. *)
create_question_stale_total ==
    \E new_question \in QuestionTexts, new_answer \in AnswerTexts,
       new_difficulty \in Difficulties, new_category \in QuestionCategories,
       page \in PageArgs :
        /\ Accepting
        /\ req' = [op |-> "create_question", question |-> new_question,
                   answer |-> new_answer, difficulty |-> new_difficulty,
                   category |-> new_category, page |-> page]
        /\ LET question == [id |-> next_id, question |-> new_question,
                            answer |-> new_answer, category |-> new_category,
                            difficulty |-> new_difficulty]
               stored == Insert(questions, question)
               raised == \/ new_question = None
                         \/ new_answer = None
                         \/ new_difficulty = None
                         \/ new_category = None
           IN  /\ questions' = stored
               /\ next_id' = next_id + 1
               /\ resp' = IF raised
                          THEN unprocessable
                          ELSE Ok([success |-> TRUE,
                                   created |-> question.id,
                                   questions |->
                                       paginate_questions(req', OrderById(stored)),
                                   total_questions |-> Len(QueryAll(questions))])
        /\ served' = served + 1
        /\ UNCHANGED pc
        /\ loc' = NoLocals

(* create_question checking the four fields before the insert. *)
create_question_validate_first ==
    \E new_question \in QuestionTexts, new_answer \in AnswerTexts,
       new_difficulty \in Difficulties, new_category \in QuestionCategories,
       page \in PageArgs :
        /\ Accepting
        /\ req' = [op |-> "create_question", question |-> new_question,
                   answer |-> new_answer, difficulty |-> new_difficulty,
                   category |-> new_category, page |-> page]
        /\ LET question == [id |-> next_id, question |-> new_question,
                            answer |-> new_answer, category |-> new_category,
                            difficulty |-> new_difficulty]
               stored == Insert(questions, question)
               raised == \/ new_question = None
                         \/ new_answer = None
                         \/ new_difficulty = None
                         \/ new_category = None
           IN  IF raised
               THEN /\ resp' = unprocessable
                    /\ UNCHANGED <<questions, next_id>>
               ELSE /\ questions' = stored
                    /\ next_id' = next_id + 1
                    /\ resp' = Ok([success |-> TRUE,
                                   created |-> question.id,
                                   questions |->
                                       paginate_questions(req', OrderById(stored)),
                                   total_questions |-> Len(QueryAll(stored))])
        /\ served' = served + 1
        /\ UNCHANGED pc
        /\ loc' = NoLocals

(* The insert comes first (line 112); the check of the four fields (line
   114) aborts with 422 inside the try block after the row is stored, and
   the bare except aborts with 422 again. *)
create_question ==
    \E new_question \in QuestionTexts, new_answer \in AnswerTexts,
       new_difficulty \in Difficulties, new_category \in QuestionCategories,
       page \in PageArgs :
        /\ Accepting
        /\ req' = [op |-> "create_question", question |-> new_question,
                   answer |-> new_answer, difficulty |-> new_difficulty,
                   category |-> new_category, page |-> page]
        /\ LET question == [id |-> next_id, question |-> new_question,
                            answer |-> new_answer, category |-> new_category,
                            difficulty |-> new_difficulty]
               stored == Insert(questions, question)
               raised == \/ new_question = None
                         \/ new_answer = None
                         \/ new_difficulty = None
                         \/ new_category = None
           IN  /\ questions' = stored
               /\ next_id' = next_id + 1
               /\ resp' = IF raised
                          THEN unprocessable
                          ELSE Ok([success |-> TRUE,
                                   created |-> question.id,
                                   questions |->
                                       paginate_questions(req', OrderById(stored)),
                                   total_questions |-> Len(QueryAll(stored))])
        /\ served' = served + 1
        /\ UNCHANGED pc
        /\ loc' = NoLocals

(* "if search_term" is false for a missing term and for the empty string. *)
search_questions ==
    \E search_term \in SearchTerms, page \in PageArgs :
        /\ Accepting
        /\ req' = [op |-> "search_questions", searchTerm |-> search_term,
                   page |-> page]
        /\ resp' = IF search_term.some /\ search_term.val # <<>>
                   THEN LET selection == FilterILike(questions, search_term.val)
                        IN  Ok([success |-> TRUE,
                                questions |-> paginate_questions(req', selection),
                                total_questions |-> Len(selection)])
                   ELSE not_found
        /\ served' = served + 1
        /\ UNCHANGED <<questions, next_id, pc>>
        /\ loc' = NoLocals

get_questions_by_category ==
    \E id \in CategoryIds, page \in PageArgs :
        /\ Accepting
        /\ req' = [op |-> "get_questions_by_category", id |-> id, page |-> page]
        /\ resp' = IF id \notin DOMAIN CategoryTable
                   THEN bad_request
                   ELSE LET selection == FilterByCategory(questions, id)
                        IN  Ok([success |-> TRUE,
                                questions |-> paginate_questions(req', selection),
                                total_questions |-> Len(selection),
                                current_category |-> CategoryTable[id]])
        /\ served' = served + 1
        /\ UNCHANGED <<questions, next_id, pc>>
        /\ loc' = NoLocals

(* The candidate pool of play_quiz: lines 173-176. *)
QuizPool(table, category) ==
    IF category.id = 0
    THEN QueryAll(table)
    ELSE FilterByCategory(table, category.id)

(* "random_question.id not in previous_questions": line 185. *)
Unseen(random_question, previous_questions) ==
    random_question.id \notin Range(previous_questions)

(* play_quiz answering with an unseen draw before it compares the lengths. *)
play_quiz_after_question_first(previous_questions, total, random_question) ==
    IF random_question # <<>> /\ Unseen(random_question[1], previous_questions)
    THEN Ok([success |-> TRUE, question |-> Format(random_question[1])])
    ELSE IF Len(previous_questions) = total
    THEN Ok([success |-> TRUE])
    ELSE IF random_question = <<>>
    THEN InternalServerError
    ELSE Ok([success |-> TRUE, question |-> Format(random_question[1])])

(* play_quiz after its for loop: lines 190-198.  random_question is still
   the empty list when the loop body never ran, and a list has no format():
   the AttributeError is handled by nobody. *)
play_quiz_after(previous_questions, total, random_question) ==
    IF Len(previous_questions) = total
    THEN Ok([success |-> TRUE])
    ELSE IF random_question = <<>>
    THEN InternalServerError
    ELSE Ok([success |-> TRUE, question |-> Format(random_question[1])])

(* play_quiz up to its for loop: lines 166-181.  A for loop over an empty
   pool runs no iteration, so the handler returns in the same step. *)
play_quiz ==
    \E previous_questions \in PreviousQuestions, category \in QuizCategories :
        /\ Accepting
        /\ req' = [op |-> "play_quiz", previous_questions |-> previous_questions,
                   quiz_category |-> category]
        /\ served' = served + 1
        /\ UNCHANGED <<questions, next_id>>
        /\ IF category = None \/ previous_questions = None
           THEN /\ resp' = bad_request
                /\ pc' = "idle"
                /\ loc' = NoLocals
           ELSE LET pool == QuizPool(questions, category.val)
                    total == Len(pool)
                IN  IF total = 0
                    THEN /\ resp' = play_quiz_after(previous_questions.val, total, <<>>)
                         /\ pc' = "idle"
                         /\ loc' = NoLocals
                    ELSE /\ resp' = NoResponse
                         /\ pc' = "loop"
                         /\ loc' = [fn |-> "play_quiz",
                                    questions |-> pool,
                                    previous_questions |-> previous_questions.val,
                                    total |-> total,
                                    random_question |-> <<>>,
                                    used |-> FALSE,
                                    draws |-> 0]

(* The draw loop as "while True": a seen draw is retried without counting. *)
play_quiz_draw_retry ==
    /\ pc = "loop"
    /\ \E k \in 1..Len(loc.questions) :
           LET random_question == loc.questions[k]
               used == Unseen(random_question, loc.previous_questions)
           IN  IF used
               THEN /\ resp' = play_quiz_after(loc.previous_questions, loc.total,
                                               <<random_question>>)
                    /\ pc' = "idle"
                    /\ loc' = NoLocals
               ELSE /\ loc' = [loc EXCEPT !.random_question = <<random_question>>]
                    /\ UNCHANGED <<pc, resp>>
    /\ UNCHANGED <<questions, next_id, req, served>>

(* One iteration of "for question in questions": lines 183-189, with k the
   outcome of random.randrange(0, len(questions), 1), counted from 1.  The
   iteration that breaks, and the one that exhausts the pool, run on into
   the code after the loop and send the response; the locals end with the
   call. *)
play_quiz_draw ==
    /\ pc = "loop"
    /\ loc.draws < Len(loc.questions)
    /\ \E k \in 1..Len(loc.questions) :
           LET random_question == loc.questions[k]
               used == Unseen(random_question, loc.previous_questions)
               draws == loc.draws + 1
           IN  IF used \/ draws = Len(loc.questions)
               THEN /\ resp' = play_quiz_after(loc.previous_questions, loc.total,
                                               <<random_question>>)
                    /\ pc' = "idle"
                    /\ loc' = NoLocals
               ELSE /\ loc' = [loc EXCEPT !.random_question = <<random_question>>,
                                          !.draws = draws,
                                          !.used = used]
                    /\ UNCHANGED <<pc, resp>>
    /\ UNCHANGED <<questions, next_id, req, served>>

----------------------------------------------------------------------------
(* The API *)

Init ==
    /\ questions = SeedTable(SeedSize)
    /\ next_id = SeedSize + 1
    /\ pc = "idle"
    /\ req = NoRequest
    /\ loc = NoLocals
    /\ resp = NoResponse
    /\ served = 0

Next ==
    \/ get_categories
    \/ get_questions
    \/ delete_question
    \/ create_question
    \/ search_questions
    \/ get_questions_by_category
    \/ play_quiz
    \/ play_quiz_draw

Spec == Init /\ [][Next]_vars

(* The draw loop is run by the thread that handles the request: an
   iteration that can run does run. *)
FairSpec == Spec /\ WF_vars(play_quiz_draw)

----------------------------------------------------------------------------
(* paginate_questions on its own: every selection of up to MaxItems rows,
   in ascending or descending id order, and every page argument. *)

Reverse(s) == [i \in 1..Len(s) |-> s[Len(s) + 1 - i]]

Selections ==
    {SeedTable(n) : n \in 0..MaxItems} \cup {Reverse(SeedTable(n)) : n \in 0..MaxItems}

AllPageArgs ==
    {None, Some(<<"x">>), Some(<<"-", "2">>), Some(<<"-", "1">>), Some(<<"0">>),
     Some(<<"1">>), Some(<<"2">>), Some(<<"3">>), Some(<<"4">>)}

InitPaginate ==
    /\ questions \in Selections
    /\ next_id = Len(questions) + 1
    /\ pc = "call"
    /\ req \in {[op |-> "paginate_questions", page |-> a] : a \in AllPageArgs}
    /\ loc = NoLocals
    /\ resp = NoResponse
    /\ served = 0

paginate_call ==
    /\ pc = "call"
    /\ resp' = [status |-> 0, body |-> [result |-> paginate_questions(req, questions)]]
    /\ pc' = "returned"
    /\ UNCHANGED <<questions, next_id, req, loc, served>>

NextPaginate == paginate_call

SpecPaginate == InitPaginate /\ [][NextPaginate]_vars

----------------------------------------------------------------------------
(* Vocabulary of the properties *)

(* The decimal text of a natural number, as a client writes ?page=n. *)
RECURSIVE Dec(_)
Dec(n) ==
    IF n < 10 THEN <<Digits[n + 1]>>
    ELSE Dec(n \div 10) \o <<Digits[(n % 10) + 1]>>

PageCount(n) == (n + 9) \div 10

PageOf(request) == ArgsGetPage(request.page)

RequestForPage(p) == [op |-> "get_questions", page |-> Some(Dec(p))]

RECURSIVE ConcatPages(_, _, _)
ConcatPages(selection, p, last) ==
    IF p > last THEN <<>>
    ELSE paginate_questions(RequestForPage(p), selection)
             \o ConcatPages(selection, p + 1, last)

(* The ids a response carries in its question list or its quiz question. *)
CarriedIds(r) ==
    (IF "questions" \in DOMAIN r.body THEN Ids(r.body.questions) ELSE {})
        \cup (IF "question" \in DOMAIN r.body THEN {r.body.question.id} ELSE {})

QuizAnswered == req.op = "play_quiz" /\ pc = "idle"

QuizInputsPresent == req.previous_questions.some /\ req.quiz_category.some

RequestPool == QuizPool(questions, req.quiz_category.val)

----------------------------------------------------------------------------
(* Properties of paginate_questions, under SpecPaginate *)

Returned == pc = "returned"

(* C3: for a page number >= 1, paginate_questions returns exactly
   min(10, max(0, N - 10*(page-1))) items, namely the formatted items at
   positions (page-1)*10 .. page*10 - 1 of the selection in order, and the
   pages 1..ceil(N/10) concatenated give the whole formatted selection. *)
C3_PagesPartitionSelection ==
    (Returned /\ PageOf(req) >= 1) =>
        LET page == PageOf(req)
            n == Len(questions)
            out == resp.body.result
        IN  /\ Len(out) = Min(10, Max(0, n - 10 * (page - 1)))
            /\ \A k \in 1..Len(out) : out[k] = Format(questions[(page - 1) * 10 + k])
            /\ ConcatPages(questions, 1, PageCount(n)) = FormatAll(questions)

(* A second page that is returned short: 10 < N < 20. *)
C3_Witness ==
    /\ Returned
    /\ PageOf(req) = 2
    /\ Len(questions) = 15
    /\ Len(resp.body.result) = 5
    /\ resp.body.result[1].id = questions[11].id

(* C4 as claimed: every page number outside 1..ceil(N/10), page 0 and the
   negative pages included, gets the empty sequence. *)
C4_OutOfRangePageIsEmpty ==
    (Returned /\ PageOf(req) \notin 1..PageCount(Len(questions))) =>
        resp.body.result = <<>>

----------------------------------------------------------------------------
(* Properties of the API, under Spec *)

(* C1 as claimed: a quiz request with both inputs, a non-empty pool and a
   previous_questions length different from the pool size is answered with
   a question whose id is not in previous_questions, whatever was drawn. *)
C1_QuizQuestionIsUnseen ==
    (/\ QuizAnswered
     /\ QuizInputsPresent
     /\ RequestPool # <<>>
     /\ Len(req.previous_questions.val) # Len(RequestPool)) =>
        /\ "question" \in DOMAIN resp.body
        /\ resp.body.question.id \notin Range(req.previous_questions.val)

(* C2 as claimed: DELETE of an id that is not stored is answered 404. *)
C2_DeleteMissingIs404 ==
    [][(req'.op = "delete_question" /\ req'.question_id \notin Ids(questions)) =>
           (resp'.status = 404 /\ resp'.body.error = 404)]_vars

(* C5 as claimed: a quiz request is answered 400 exactly when an input is
   missing and 200 with success = true otherwise; never anything else. *)
C5_QuizIs200Or400 ==
    QuizAnswered =>
        /\ resp.status \in {200, 400}
        /\ resp.status = 400 <=> ~QuizInputsPresent
        /\ resp.status = 200 => resp.body.success = TRUE

(* C6: a quiz request with both inputs whose previous_questions is as long
   as the candidate pool is answered {success: true} with no question key,
   whatever was drawn and whether or not the previous ids are in the pool. *)
C6_ExhaustedPoolHasNoQuestion ==
    (/\ QuizAnswered
     /\ QuizInputsPresent
     /\ Len(req.previous_questions.val) = Len(RequestPool)) =>
        /\ resp.status = 200
        /\ DOMAIN resp.body = {"success"}
        /\ resp.body.success = TRUE

(* Equal lengths with a pool question still unseen and a previous id that
   is not in the pool: the draw loop ran and may have found the question. *)
C6_Witness ==
    /\ QuizAnswered
    /\ QuizInputsPresent
    /\ RequestPool # <<>>
    /\ Len(req.previous_questions.val) = Len(RequestPool)
    /\ \E id \in Range(req.previous_questions.val) : id \notin Ids(RequestPool)
    /\ \E id \in Ids(RequestPool) : id \notin Range(req.previous_questions.val)
    /\ resp.status = 200

(* C7: a DELETE answered 200 removes exactly the row of that id, reports
   deleted = id and a question list without it; every response carries only
   ids that are stored, and an id enters the table only by a create: so no
   later response carries the id unless a create stored it again. *)
C7_DeletedIdIsGone ==
    /\ [][(req'.op = "delete_question" /\ resp'.status = 200) =>
              LET id == req'.question_id
              IN  /\ id \in Ids(questions)
                  /\ id \notin Ids(questions')
                  /\ questions' = SelectSeq(questions, LAMBDA r : r.id # id)
                  /\ resp'.body.deleted = id
                  /\ id \notin Ids(resp'.body.questions)
                  /\ resp'.body.total_questions = Len(questions')]_vars
    /\ [](CarriedIds(resp) \subseteq Ids(questions))
    /\ [][\A id \in 1..next_id :
              (id \notin Ids(questions) /\ id \in Ids(questions')) =>
                  req'.op = "create_question"]_vars

(* A listing answered 200 after the question of id 1 was deleted. *)
C7_Witness ==
    /\ req.op = "get_questions"
    /\ resp.status = 200
    /\ 1 \notin Ids(questions)
    /\ Len(questions) = SeedSize - 1
    /\ 1 \notin Ids(resp.body.questions)

AllFieldsPresent(r) ==
    r.question # None /\ r.answer # None /\ r.difficulty # None /\ r.category # None

PagesCarrying(id, table) ==
    {p \in 1..PageCount(Len(table)) :
         id \in Ids(paginate_questions(RequestForPage(p), QueryAll(table)))}

(* C8: a create with all four fields is answered 200 with created = the id
   of the one row it stored; the table grows by that row alone,
   total_questions is the new size, and GET /questions over the pages
   1..ceil(N/10) returns the new id on exactly one page. *)
C8_CreateStoresOneRow ==
    [][(req'.op = "create_question" /\ AllFieldsPresent(req')) =>
           /\ resp'.status = 200
           /\ LET id == resp'.body.created
              IN  /\ id \notin Ids(questions)
                  /\ Len(questions') = Len(questions) + 1
                  /\ SelectSeq(questions', LAMBDA r : r.id # id) = questions
                  /\ Len(SelectSeq(questions', LAMBDA r : r.id = id)) = 1
                  /\ resp'.body.total_questions = Len(questions')
                  /\ Cardinality(PagesCarrying(id, questions')) = 1]_vars

(* A create answered 200 whose row is the only one on the second page. *)
C8_Witness ==
    /\ req.op = "create_question"
    /\ resp.status = 200
    /\ Len(questions) > 10
    /\ PagesCarrying(resp.body.created, questions) = {2}

(* C9: a create with a field absent is answered 422, and the table
   afterwards holds one more row than before: the record with the null
   field. *)
C9_InvalidCreateIsStored ==
    [][(req'.op = "create_question" /\ ~AllFieldsPresent(req')) =>
           /\ resp'.status = 422
           /\ resp'.body.error = 422
           /\ Len(questions') = Len(questions) + 1
           /\ SubSeq(questions', 1, Len(questions)) = questions
           /\ LET row == questions'[Len(questions')]
              IN  /\ row.id \notin Ids(questions)
                  /\ row.question = req'.question
                  /\ row.answer = req'.answer
                  /\ row.difficulty = req'.difficulty
                  /\ row.category = req'.category
                  /\ ~AllFieldsPresent(row)]_vars

(* A create answered 422 that left its row, with no answer, in the table. *)
C9_Witness ==
    /\ req.op = "create_question"
    /\ resp.status = 422
    /\ req.answer = None
    /\ Len(questions) = SeedSize + 1
    /\ questions[Len(questions)].answer = None

----------------------------------------------------------------------------
(* Termination of play_quiz, under FairSpec *)

(* C10: the draw loop makes at most |pool| draws, goes on only after a draw
   that is in previous_questions, and every quiz request gets a response. *)
C10_QuizTerminates ==
    /\ [](pc = "loop" => loc.draws < Len(loc.questions))
    /\ [][(pc = "loop" /\ pc' = "loop") =>
              /\ loc'.draws = loc.draws + 1
              /\ ~Unseen(loc'.random_question[1], loc.previous_questions)]_vars
    /\ [][(pc = "loop" /\ pc' = "idle") => resp'.status \in {200, 500}]_vars
    /\ (pc = "loop" ~> pc = "idle")

(* A quiz answered although every question of a non-empty pool had been
   seen: the loop ran |pool| times and found nothing. *)
C10_Witness ==
    /\ QuizAnswered
    /\ QuizInputsPresent
    /\ RequestPool # <<>>
    /\ Ids(RequestPool) \subseteq Range(req.previous_questions.val)
    /\ resp.status = 200

====
